---------------------------- MODULE Spec2Model ----------------------------
(***************************************************************************)
(* MNEE Sentinel: the proposal audit (agents/auditor_agent.py), the        *)
(* governance store operations (utils/db_utils.py), the payment rail       *)
(* (utils/crypto_utils.py) and the dashboard's submit / execute handlers   *)
(* (app.py).                                                               *)
(*                                                                         *)
(* Strings are sequences of one-character strings, so that lower(),        *)
(* strip(), split(), len() and ilike are computed and not assumed.         *)
(* Amounts are whole MNEE; confidences are hundredths (0.70 is 70); the    *)
(* clock counts hours.                                                     *)
(***************************************************************************)
EXTENDS Integers, Sequences, FiniteSets, TLC

(***************************************************************************)
(* Bounds of the model.                                                    *)
(***************************************************************************)
\* how many update_budget_spent calls one session starts
MaxBudgetCalls == 1
\* how many update_velocity_tracker calls one session starts
MaxVelocityCalls == 1
\* the clock stops advancing at this hour
MaxClock == 36
\* hours added by one advance of the clock
TickHours == 12

(***************************************************************************)
(* Program constants.                                                      *)
(***************************************************************************)
VELOCITY_WINDOW_HOURS == 24
MAX_TRANSACTIONS_PER_VENDOR_PER_DAY == 10
\* 0.70, in hundredths
CONFIDENCE_THRESHOLD == 70
\* len(parsed.vendor_address) == 42
ADDRESS_LENGTH == 42
\* the {40} of the address pattern 0x[a-fA-F0-9]{40}
ADDRESS_HEX_DIGITS == 40

(***************************************************************************)
(* Strings.                                                                *)
(***************************************************************************)
Rep(c, n) == [i \in 1..n |-> c]

\* str.lower(), one character
LowerChar(c) ==
  CASE c = "A" -> "a" [] c = "B" -> "b" [] c = "C" -> "c" [] c = "D" -> "d"
    [] c = "E" -> "e" [] c = "F" -> "f" [] c = "U" -> "u" [] c = "V" -> "v"
    [] c = "Z" -> "z" [] OTHER -> c

\* str.lower()
Lower(s) == [i \in 1..Len(s) |-> LowerChar(s[i])]

\* s.startswith(prefix)
StartsWith(s, prefix) ==
  /\ Len(s) >= Len(prefix)
  /\ SubSeq(s, 1, Len(prefix)) = prefix

\* needle in s
IsSubstr(needle, s) ==
  \E i \in 0..(Len(s) - Len(needle)) : SubSeq(s, i + 1, i + Len(needle)) = needle

RECURSIVE LStrip(_)
LStrip(s) == IF s # << >> /\ Head(s) = " " THEN LStrip(Tail(s)) ELSE s

RECURSIVE RStrip(_)
RStrip(s) ==
  IF s # << >> /\ s[Len(s)] = " " THEN RStrip(SubSeq(s, 1, Len(s) - 1)) ELSE s

\* str.strip()
Strip(s) == RStrip(LStrip(s))

\* re.sub(r'\s+', ' ', s)
RECURSIVE CollapseSpaces(_)
CollapseSpaces(s) ==
  IF Len(s) < 2 THEN s
  ELSE IF s[1] = " " /\ s[2] = " " THEN CollapseSpaces(Tail(s))
  ELSE <<s[1]>> \o CollapseSpaces(Tail(s))

\* s.replace(pat, "")
RECURSIVE Remove(_, _)
Remove(s, pat) ==
  IF Len(s) < Len(pat) THEN s
  ELSE IF SubSeq(s, 1, Len(pat)) = pat
       THEN Remove(SubSeq(s, Len(pat) + 1, Len(s)), pat)
       ELSE <<s[1]>> \o Remove(Tail(s), pat)

\* the characters of a word up to its first blank
RECURSIVE UpToBlank(_)
UpToBlank(s) ==
  IF s = << >> \/ Head(s) = " " THEN << >> ELSE <<Head(s)>> \o UpToBlank(Tail(s))

\* s.split(): the words of s, as a sequence
RECURSIVE Split(_)
Split(s) ==
  LET t == LStrip(s)
      w == UpToBlank(t)
  IN IF t = << >> THEN << >>
     ELSE <<w>> \o Split(SubSeq(t, Len(w) + 1, Len(t)))

IsHexChar(c) ==
  c \in {"0", "1", "2", "3", "4", "5", "6", "7", "8", "9",
         "a", "b", "c", "d", "e", "f", "A", "B", "C", "D", "E", "F"}

\* a wallet address made of the first hex digit c1 and 39 times the digit c
AddrOf(c1, c) == <<"0", "x", c1>> \o Rep(c, ADDRESS_HEX_DIGITS - 1)


(***************************************************************************)
(* The ledger's vendor table.  No code of the repository writes it.        *)
(***************************************************************************)
NAME_ACME == <<"A", "c", "m", "e", " ", "C", "o">>
NAME_BETA == <<"B", "e", "t", "a", " ", "C", "o">>
ADDR_ACME == AddrOf("a", "a")
ADDR_BETA == AddrOf("b", "b")
\* an address no vendor of the ledger has
ADDR_OTHER == AddrOf("c", "c")

\* table whitelisted_vendors: an active vendor and a deactivated one
whitelisted_vendors ==
  << [vendor_name |-> NAME_ACME, wallet_address |-> ADDR_ACME,
      category |-> "Software", max_transaction_limit |-> 20, is_active |-> TRUE],
     [vendor_name |-> NAME_BETA, wallet_address |-> ADDR_BETA,
      category |-> "FX", max_transaction_limit |-> 10, is_active |-> FALSE] >>

\* the categories that have a row in table budgets
BudgetCategories == {"Software", "FX"}

\* table budgets as the run starts: Software has 15 left, FX has 40
InitialBudgets ==
  [c \in BudgetCategories |->
     IF c = "Software"
     THEN [monthly_limit_mnee |-> 25, current_spent |-> 10]
     ELSE [monthly_limit_mnee |-> 50, current_spent |-> 10]]

(***************************************************************************)
(* Proposal texts.  A text is given by what the three regular expressions  *)
(* of _parse_proposal_text capture in it and by the category keywords its  *)
(* lower-cased form contains: vendor_match is << >> (no match) or          *)
(* <<group(1)>>, address_token is the text from its first "0x" on,         *)
(* amount_match is << >> or <<the number before MNEE>>.                    *)
(***************************************************************************)
UNKNOWN_VENDOR ==
  <<"U", "n", "k", "n", "o", "w", "n", " ", "V", "e", "n", "d", "o", "r">>

\* re.search(r'(0x[a-fA-F0-9]{40})', text): group(1), or "" without a match
AddressMatch(token) ==
  IF /\ Len(token) >= ADDRESS_LENGTH
     /\ StartsWith(token, <<"0", "x">>)
     /\ \A i \in 3..ADDRESS_LENGTH : IsHexChar(token[i])
  THEN SubSeq(token, 1, ADDRESS_LENGTH)
  ELSE << >>

\* the keyword lists of the category detection, in the order they are tried
CategoryKeywords ==
  << [category |-> "FX", keywords |-> {"fx", "forex", "hedging", "currency"}],
     [category |-> "Remittance", keywords |-> {"remittance", "transfer", "wire"}],
     [category |-> "Settlement", keywords |-> {"settlement", "clearing"}],
     [category |-> "Software", keywords |-> {"software", "license", "subscription"}],
     [category |-> "Consulting", keywords |-> {"consulting", "advisory"}],
     [category |-> "Cybersecurity", keywords |-> {"security", "cyber", "audit"}],
     [category |-> "Office", keywords |-> {"office", "supplies", "stationery"}],
     [category |-> "Data", keywords |-> {"data", "analytics", "market data"}],
     [category |-> "Travel", keywords |-> {"travel", "flight", "hotel"}],
     [category |-> "Legal", keywords |-> {"legal", "compliance"}] >>

\* the if / elif chain over the keyword lists
DetectCategory(keywords) ==
  LET hits == {i \in 1..Len(CategoryKeywords) :
                 CategoryKeywords[i].keywords \cap keywords # {}}
  IN IF hits = {} THEN "General"
     ELSE CategoryKeywords[CHOOSE i \in hits : \A j \in hits : i <= j].category

\* AuditorAgent._parse_proposal_text
parse_proposal_text(text) ==
  LET raw == IF text.vendor_match # << >>
             THEN Strip(text.vendor_match[1])
             ELSE UNKNOWN_VENDOR
      vendor_name ==
        Strip(Remove(Remove(CollapseSpaces(raw), <<" ", "f", "o", "r", " ">>),
                     <<" ", "a", "t", " ">>))
      vendor_address == AddressMatch(text.address_token)
      amount == IF text.amount_match # << >> THEN text.amount_match[1] ELSE 0
      category == DetectCategory(text.keywords)
      confidence ==
          (IF vendor_name # << >> /\ vendor_name # UNKNOWN_VENDOR THEN 30 ELSE 0)
        + (IF vendor_address # << >> THEN 30 ELSE 0)
        + (IF amount > 0 THEN 20 ELSE 0)
        + (IF category # "General" THEN 20 ELSE 0)
  IN [vendor_name |-> vendor_name, vendor_address |-> vendor_address,
      amount |-> amount, category |-> category, confidence |-> confidence]

(***************************************************************************)
(* The compliance checks.                                                  *)
(***************************************************************************)
\* the rows .ilike("vendor_name", "%" + word + "%") selects: no filter on
\* wallet_address, none on is_active
VendorMatches(word) ==
  {i \in 1..Len(whitelisted_vendors) :
     IsSubstr(Lower(word), Lower(whitelisted_vendors[i].vendor_name))}

\* what vendor_result.data[0] can be: the select states no order, so any
\* matching row; 0 stands for an empty result
VendorPicks(parsed) ==
  LET words == Split(parsed.vendor_name)
  IN IF words = << >> \/ VendorMatches(words[1]) = {}
     THEN {0}
     ELSE VendorMatches(words[1])

\* the checks dictionary with the budget check passed until shown otherwise
InitialChecks_BudgetPasses ==
  [vendor_whitelisted |-> FALSE, within_budget |-> TRUE,
   within_tx_limit |-> FALSE, valid_address |-> FALSE, velocity_ok |-> TRUE,
   details |-> [vendor |-> << >>, budget |-> << >>]]

\* the checks dictionary as _check_compliance creates it
InitialChecks ==
  [vendor_whitelisted |-> FALSE, within_budget |-> FALSE,
   within_tx_limit |-> FALSE, valid_address |-> FALSE, velocity_ok |-> TRUE,
   details |-> [vendor |-> << >>, budget |-> << >>]]

\* the address test of _check_compliance
ValidAddress(vendor_address) ==
  /\ vendor_address # << >>
  /\ Len(vendor_address) = ADDRESS_LENGTH
  /\ StartsWith(vendor_address, <<"0", "x">>)

\* AuditorAgent._check_compliance.  budget_table is table budgets as the
\* queries see it, pick the row the vendor query returns first, store one of
\* "ok", "absent" (self.db is None), "vendors_raise", "budgets_raise" (the
\* query raises, and the except clause returns the checks made so far)
check_compliance(parsed, budget_table, pick, store) ==
  LET checks0 == [InitialChecks EXCEPT
                    !.valid_address = ValidAddress(parsed.vendor_address)]
      words == Split(parsed.vendor_name)
      vendor == whitelisted_vendors[pick]
      checks1 ==
        IF pick = 0 THEN checks0
        ELSE [checks0 EXCEPT
                !.vendor_whitelisted = TRUE,
                !.details.vendor = <<vendor>>,
                !.within_tx_limit = (parsed.amount <= vendor.max_transaction_limit)]
      budget == budget_table[parsed.category]
      remaining == budget.monthly_limit_mnee - budget.current_spent
      checks2 ==
        IF parsed.category \notin DOMAIN budget_table THEN checks1
        ELSE [checks1 EXCEPT
                !.within_budget = (parsed.amount <= remaining),
                !.details.budget = << [limit |-> budget.monthly_limit_mnee,
                                       spent |-> budget.current_spent,
                                       remaining |-> remaining] >>]
  IN CASE store = "absent" -> checks0
       [] words = << >> -> checks0          \* split()[0] raises IndexError
       [] store = "vendors_raise" -> checks0
       [] store = "budgets_raise" -> checks1
       [] OTHER -> checks2

(***************************************************************************)
(* The AI provider.  A response is a sequence of lines; a line is          *)
(* [tag, reject, number_ok, number]: tag is what the line starts with,     *)
(* reject whether a DECISION line holds REJECT, number the value of a      *)
(* CONFIDENCE line in hundredths (number_ok: float() accepts it).          *)
(***************************************************************************)
Line(tag, reject, number_ok, number) ==
  [tag |-> tag, reject |-> reject, number_ok |-> number_ok, number |-> number]

\* the loop in which a REJECT, once read, is not replaced by a later line
RECURSIVE ParseLines_RejectSticks(_, _)
ParseLines_RejectSticks(lines, result) ==
  IF lines = << >> THEN result
  ELSE LET line == Head(lines)
           next ==
             CASE line.tag = "DECISION:" ->
                    [result EXCEPT
                       !.decision = IF line.reject \/ result.decision = "REJECTED"
                                    THEN "REJECTED" ELSE "APPROVED"]
               [] line.tag = "CONFIDENCE:" ->
                    [result EXCEPT
                       !.confidence =
                          IF ~line.number_ok THEN 85
                          ELSE IF line.number > 100 THEN line.number \div 100
                          ELSE line.number]
               [] OTHER -> result
       IN ParseLines_RejectSticks(Tail(lines), next)

\* AuditorAgent._parse_ai_response: the decision and the confidence
RECURSIVE ParseLines(_, _)
ParseLines(lines, result) ==
  IF lines = << >> THEN result
  ELSE LET line == Head(lines)
           next ==
             CASE line.tag = "DECISION:" ->
                    [result EXCEPT
                       !.decision = IF line.reject THEN "REJECTED" ELSE "APPROVED"]
               [] line.tag = "CONFIDENCE:" ->
                    [result EXCEPT
                       !.confidence =
                          IF ~line.number_ok THEN 85
                          ELSE IF line.number > 100 THEN line.number \div 100
                          ELSE line.number]
               [] OTHER -> result
       IN ParseLines(Tail(lines), next)

\* the parse that starts with no decision and takes it from the response only
parse_ai_response_NoDefault(response) ==
  ParseLines(response, [decision |-> "", confidence |-> 85])

parse_ai_response(response) ==
  ParseLines(response, [decision |-> "APPROVED", confidence |-> 85])

\* what the provider does for one audit: llm is whether self.llm is set,
\* raises whether chain.invoke raises, response what it returns
AIOutcome(llm, raises, response) ==
  [llm |-> llm, raises |-> raises, response |-> response]

(***************************************************************************)
(* The decision.                                                           *)
(***************************************************************************)
Decision(decision, reasoning, confidence) ==
  [decision |-> decision, reasoning |-> reasoning, confidence |-> confidence]

\* the chain with the transaction limit tested before the budget
DecisionRule_LimitFirst(parsed, compliance, ai) ==
  IF ~compliance.vendor_whitelisted
  THEN Decision("REJECTED", "not in the whitelist", 95)
  ELSE IF ~compliance.within_tx_limit
  THEN Decision("REJECTED", "exceeds transaction limit", 95)
  ELSE IF ~compliance.within_budget
  THEN Decision("REJECTED", "Insufficient budget", 95)
  ELSE IF ~compliance.valid_address /\ parsed.vendor_address # << >>
  THEN Decision("REJECTED", "Invalid wallet address format", 90)
  ELSE IF ~ai.llm
  THEN Decision("APPROVED", "All compliance checks passed", 85)
  ELSE IF ai.raises
  THEN Decision("APPROVED", "AI verification unavailable", 80)
  ELSE LET ai_result == parse_ai_response(ai.response)
       IN Decision(ai_result.decision, "AI analysis", ai_result.confidence)

\* the chain with the budget tested before the whitelist
DecisionRule_BudgetFirst(parsed, compliance, ai) ==
  IF ~compliance.within_budget
  THEN Decision("REJECTED", "Insufficient budget", 95)
  ELSE IF ~compliance.vendor_whitelisted
  THEN Decision("REJECTED", "not in the whitelist", 95)
  ELSE IF ~compliance.within_tx_limit
  THEN Decision("REJECTED", "exceeds transaction limit", 95)
  ELSE IF ~compliance.valid_address /\ parsed.vendor_address # << >>
  THEN Decision("REJECTED", "Invalid wallet address format", 90)
  ELSE IF ~ai.llm
  THEN Decision("APPROVED", "All compliance checks passed", 85)
  ELSE IF ai.raises
  THEN Decision("APPROVED", "AI verification unavailable", 80)
  ELSE LET ai_result == parse_ai_response(ai.response)
       IN Decision(ai_result.decision, "AI analysis", ai_result.confidence)

\* the chain with an answering provider asked before the rule checks
DecisionRule_ProviderFirst(parsed, compliance, ai) ==
  IF ai.llm /\ ~ai.raises
  THEN LET ai_result == parse_ai_response(ai.response)
       IN Decision(ai_result.decision, "AI analysis", ai_result.confidence)
  ELSE IF ~compliance.vendor_whitelisted
  THEN Decision("REJECTED", "not in the whitelist", 95)
  ELSE IF ~compliance.within_budget
  THEN Decision("REJECTED", "Insufficient budget", 95)
  ELSE IF ~compliance.within_tx_limit
  THEN Decision("REJECTED", "exceeds transaction limit", 95)
  ELSE IF ~compliance.valid_address /\ parsed.vendor_address # << >>
  THEN Decision("REJECTED", "Invalid wallet address format", 90)
  ELSE IF ~ai.llm
  THEN Decision("APPROVED", "All compliance checks passed", 85)
  ELSE Decision("APPROVED", "AI verification unavailable", 80)

\* the if / elif chain of audit_proposal over the compliance checks
DecisionRule(parsed, compliance, ai) ==
  IF ~compliance.vendor_whitelisted
  THEN Decision("REJECTED", "not in the whitelist", 95)
  ELSE IF ~compliance.within_budget
  THEN Decision("REJECTED", "Insufficient budget", 95)
  ELSE IF ~compliance.within_tx_limit
  THEN Decision("REJECTED", "exceeds transaction limit", 95)
  ELSE IF ~compliance.valid_address /\ parsed.vendor_address # << >>
  THEN Decision("REJECTED", "Invalid wallet address format", 90)
  ELSE IF ~ai.llm
  THEN Decision("APPROVED", "All compliance checks passed", 85)
  ELSE IF ai.raises
  THEN Decision("APPROVED", "AI verification unavailable", 80)
  ELSE LET ai_result == parse_ai_response(ai.response)
       IN Decision(ai_result.decision, "AI analysis", ai_result.confidence)

\* AuditorAgent.audit_proposal
audit_proposal(text, budget_table, pick, store, ai) ==
  LET parsed == parse_proposal_text(text)
      compliance == check_compliance(parsed, budget_table, pick, store)
      d == DecisionRule(parsed, compliance, ai)
  IN [decision |-> d.decision, confidence |-> d.confidence,
      reasoning |-> d.reasoning, parsed_data |-> parsed, details |-> compliance]

(***************************************************************************)
(* The payment rail and the call the dashboard makes to it.                *)
(***************************************************************************)
\* the parameters of MNEETokenManager.execute_transfer (besides self)
ExecuteTransferParameters == {"to_address", "amount", "gas_price_gwei"}

\* the prefix of the hash a simulated transfer returns
SIM_PREFIX == <<"0", "x", "s", "i", "m">>

\* format(n, "x"): the hexadecimal digits of a natural number
HexDigit(d) ==
  <<"0", "1", "2", "3", "4", "5", "6", "7", "8", "9",
    "a", "b", "c", "d", "e", "f">>[d + 1]

RECURSIVE Hex(_)
Hex(n) == IF n < 16 THEN <<HexDigit(n)>> ELSE Hex(n \div 16) \o <<HexDigit(n % 16)>>

\* the zero padding of a format width
RECURSIVE ZeroPad(_, _)
ZeroPad(digits, width) ==
  IF Len(digits) >= width THEN digits ELSE ZeroPad(<<"0">> \o digits, width)

\* what the environment supplies to a transfer: the chain's reaction
\* ("confirmed", "reverted", anything else: a step of the transfer raises),
\* the hash the node returns, the clock and hash(to_address) % 1000000
RailEnvironment(chain, tx_hash, timestamp, address_hash) ==
  [chain |-> chain, tx_hash |-> tx_hash, timestamp |-> timestamp,
   address_hash |-> address_hash]

\* the simulated transfer returning a hash without the simulation mark
execute_transfer_PlainHash(simulation_mode, to_address, amount, env) ==
  IF simulation_mode
  THEN [status |-> "SUCCESS",
        tx_hash |-> <<"0", "x">> \o Hex(env.timestamp)
                                 \o ZeroPad(Hex(env.address_hash), 6),
        mode |-> "SIMULATION",
        message |-> "Demo transaction completed (no gas fees)",
        block_number |-> "None", gas_used |-> 0, recipient |-> to_address,
        amount |-> amount]
  ELSE CASE env.chain = "confirmed" ->
              [status |-> "SUCCESS", tx_hash |-> env.tx_hash, mode |-> "PRODUCTION",
               message |-> "Real blockchain transaction confirmed",
               block_number |-> 1, gas_used |-> 1, recipient |-> to_address,
               amount |-> amount]
         [] env.chain = "reverted" ->
              [status |-> "FAILED", error |-> "Transaction reverted on blockchain",
               mode |-> "PRODUCTION", tx_hash |-> env.tx_hash]
         [] OTHER ->
              [status |-> "FAILED", error |-> "raised", mode |-> "PRODUCTION"]

\* MNEETokenManager.execute_transfer, called as its signature allows:
\* simulation_mode is self.simulation_mode, env what the environment
\* supplies (in production mode any exception ends in the except clause)
execute_transfer(simulation_mode, to_address, amount, env) ==
  IF simulation_mode
  THEN [status |-> "SUCCESS",
        tx_hash |-> SIM_PREFIX \o Hex(env.timestamp)
                               \o ZeroPad(Hex(env.address_hash), 6),
        mode |-> "SIMULATION",
        message |-> "Demo transaction completed (no gas fees)",
        block_number |-> "None", gas_used |-> 0, recipient |-> to_address,
        amount |-> amount]
  ELSE CASE env.chain = "confirmed" ->
              [status |-> "SUCCESS", tx_hash |-> env.tx_hash, mode |-> "PRODUCTION",
               message |-> "Real blockchain transaction confirmed",
               block_number |-> 1, gas_used |-> 1, recipient |-> to_address,
               amount |-> amount]
         [] env.chain = "reverted" ->
              [status |-> "FAILED", error |-> "Transaction reverted on blockchain",
               mode |-> "PRODUCTION", tx_hash |-> env.tx_hash]
         [] OTHER ->
              [status |-> "FAILED", error |-> "raised", mode |-> "PRODUCTION"]

\* hashes the node returns for transactions sent (w3.to_hex)
ProductionHashes == {<<"0", "x", "5", "1", "a", "f">>, <<"0", "x", "5", "e", "e", "d">>}

\* MNEETokenManager.get_transaction_status.  w3 tells whether self.w3 is set,
\* receipt what the receipt lookup does ("confirmed", "failed", or it
\* raises); contacted records whether the chain was asked
get_transaction_status(tx_hash, w3, receipt) ==
  IF StartsWith(tx_hash, SIM_PREFIX)
  THEN [status |-> "CONFIRMED", mode |-> "SIMULATION", is_simulation |-> TRUE,
        contacted |-> FALSE]
  ELSE IF ~w3
  THEN [status |-> "UNKNOWN", mode |-> "None", is_simulation |-> FALSE,
        contacted |-> FALSE]
  ELSE CASE receipt = "confirmed" ->
              [status |-> "CONFIRMED", mode |-> "PRODUCTION",
               is_simulation |-> FALSE, contacted |-> TRUE]
         [] receipt = "failed" ->
              [status |-> "FAILED", mode |-> "PRODUCTION",
               is_simulation |-> FALSE, contacted |-> TRUE]
         [] OTHER ->
              [status |-> "PENDING", mode |-> "None", is_simulation |-> FALSE,
               contacted |-> TRUE]

\* the keyword arguments of the call in the Execute Payment handler
HandlerCallKeywords == {"simulate_only"}

\* Python binds a call only if every keyword names a parameter (the
\* function takes no **kwargs); otherwise the call raises TypeError before
\* the function body runs
CallBinds(keywords, parameters) == keywords \subseteq parameters

(***************************************************************************)
(* State.                                                                  *)
(***************************************************************************)
Sessions == {"s1", "s2"}

VARIABLES
  budgets,              \* table budgets: category -> row
  transaction_velocity, \* table transaction_velocity: rows, the index is the id
  audit_logs,           \* table audit_logs: rows in insertion order
  now,                  \* datetime.now(), in hours
  pc,                   \* where each session is
  call,                 \* the locals of the store call a session is inside
  audit_result,         \* the last result audit_proposal returned to a session
  ret,                  \* what the last operation of a session returned or raised
  spent_expected,       \* history: initial current_spent plus every amount an
                        \* update_budget_spent call that returned True was given
  velocity_expected,    \* history: per vendor, the count and total of the initial
                        \* window plus every completed update_velocity_tracker call
  started,              \* history: how many calls of each kind a session started
  audit_input,          \* history: the submission a session's audit_result is for,
                        \* with the provider and the model the agent had then
  agent,                \* the AuditorAgent: [provider, llm], llm the provider whose
                        \* model self.llm holds, or NoModel for None
  available             \* the providers whose library is installed and whose
                        \* API key is set

vars == <<budgets, transaction_velocity, audit_logs, now, pc, call, audit_result,
          ret, spent_expected, velocity_expected, started, audit_input,
          agent, available>>

\* AuditorAgent.SUPPORTED_PROVIDERS
Providers == {"groq", "openai", "anthropic"}

\* self.llm = None
NoModel == "none"

\* the provider the agent is constructed with (the default of __init__)
DEFAULT_PROVIDER == "groq"

\* AuditorAgent._initialize_llm: a model of self.provider is created when
\* the provider's library and key are there; every other path returns
\* without touching self.llm
initialize_llm(a, avail) ==
  IF a.provider \in avail
  THEN [a EXCEPT !.llm = a.provider]
  ELSE a

\* AuditorAgent.__init__
AuditorAgent(provider, avail) ==
  initialize_llm([provider |-> provider, llm |-> NoModel], avail)

\* AuditorAgent.get_provider_info
get_provider_info(a) ==
  [provider |-> a.provider, available |-> a.llm # NoModel]

\* the provider configurations a run starts with: no provider usable, or
\* only the default one
InitialAvailability == {{}, {DEFAULT_PROVIDER}}

NoCall == [op |-> "none"]
NoResult == [decision |-> "none"]
NoReturn == [op |-> "none"]
NoInput == [store |-> "none"]

\* one submission: the text, how the store and the provider behave during
\* the audit, and whether the audit log insert succeeds
AuditInput(text, store, ai, log_ok) ==
  [text |-> text, store |-> store, ai |-> ai, log_ok |-> log_ok]

\* the vendor addresses table transaction_velocity is keyed by
VelocityAddresses == {ADDR_ACME, ADDR_BETA}

\* a row of transaction_velocity
VelocityRow(id, vendor_address, transaction_count, total_amount, window_start) ==
  [id |-> id, vendor_address |-> vendor_address,
   transaction_count |-> transaction_count, total_amount |-> total_amount,
   window_start |-> window_start]

\* table transaction_velocity as the run starts: empty, or one window of the
\* active vendor that holds nine transactions already
InitialVelocityTables ==
  { << >>, << VelocityRow(1, ADDR_ACME, 9, 90, 0) >> }

Init ==
  /\ budgets = InitialBudgets
  /\ transaction_velocity \in InitialVelocityTables
  /\ audit_logs = << >>
  /\ now = 0
  /\ pc = [p \in Sessions |-> "idle"]
  /\ call = [p \in Sessions |-> NoCall]
  /\ audit_result = [p \in Sessions |-> NoResult]
  /\ ret = [p \in Sessions |-> NoReturn]
  /\ spent_expected = [c \in BudgetCategories |-> InitialBudgets[c].current_spent]
  /\ velocity_expected =
       [a \in VelocityAddresses |->
          LET rows == {i \in 1..Len(transaction_velocity) :
                         transaction_velocity[i].vendor_address = a}
          IN IF rows = {} THEN [transaction_count |-> 0, total_amount |-> 0]
             ELSE LET r == transaction_velocity[CHOOSE i \in rows : TRUE]
                  IN [transaction_count |-> r.transaction_count,
                      total_amount |-> r.total_amount]]
  /\ started = [p \in Sessions |-> [budget |-> 0, velocity |-> 0]]
  /\ audit_input = [p \in Sessions |-> NoInput]
  /\ available \in InitialAvailability
  /\ agent = AuditorAgent(DEFAULT_PROVIDER, available)

(***************************************************************************)
(* The store operations of GovernanceDB.  A query is one step; an          *)
(* operation that reads and then writes is two.  ok says whether the       *)
(* query succeeds; when it raises, the except clause of the operation      *)
(* logs the error and the operation returns.                               *)
(***************************************************************************)
Return(op, value) == [op |-> op, value |-> value]

Count(p, kind) == [started EXCEPT ![p][kind] = @ + 1]

\* GovernanceDB.is_vendor_whitelisted
is_vendor_whitelisted(wallet_address) ==
  \E i \in 1..Len(whitelisted_vendors) :
     /\ whitelisted_vendors[i].wallet_address = Lower(wallet_address)
     /\ whitelisted_vendors[i].is_active

\* update_budget_spent, lines 65-67: read current_spent and add the amount
UpdateBudgetSelect(p, category, amount, ok) ==
  /\ pc[p] = "idle"
  /\ started[p].budget < MaxBudgetCalls
  /\ started' = Count(p, "budget")
  /\ IF ok /\ category \in DOMAIN budgets
     THEN /\ pc' = [pc EXCEPT ![p] = "update_budget"]
          /\ call' = [call EXCEPT ![p] =
                        [op |-> "update_budget_spent", category |-> category,
                         amount |-> amount,
                         new_spent |-> budgets[category].current_spent + amount]]
          /\ ret' = [ret EXCEPT ![p] = NoReturn]
     ELSE /\ ret' = [ret EXCEPT ![p] = Return("update_budget_spent", FALSE)]
          /\ UNCHANGED <<pc, call>>
  /\ UNCHANGED <<budgets, transaction_velocity, audit_logs, now, audit_result,
                 spent_expected, velocity_expected,
                 audit_input,
                 agent, available>>

\* the value update_budget_spent stores: float(new_spent)
NewSpent(c) == c.new_spent

\* update_budget_spent, lines 68-73: write the sum computed from the read
UpdateBudgetWrite(p, ok) ==
  /\ pc[p] = "update_budget"
  /\ pc' = [pc EXCEPT ![p] = "idle"]
  /\ call' = [call EXCEPT ![p] = NoCall]
  /\ IF ok
     THEN /\ budgets' = [budgets EXCEPT
                           ![call[p].category].current_spent = NewSpent(call[p])]
          /\ spent_expected' = [spent_expected EXCEPT
                                  ![call[p].category] = @ + call[p].amount]
          /\ ret' = [ret EXCEPT ![p] = Return("update_budget_spent", TRUE)]
     ELSE /\ ret' = [ret EXCEPT ![p] = Return("update_budget_spent", FALSE)]
          /\ UNCHANGED <<budgets, spent_expected>>
  /\ UNCHANGED <<transaction_velocity, audit_logs, now, audit_result,
                 velocity_expected, started,
                 audit_input,
                 agent, available>>

\* the rows the velocity queries select for an address: those of the vendor
\* whose window_start is not older than VELOCITY_WINDOW_HOURS
ActiveWindows(vendor_address) ==
  {i \in 1..Len(transaction_velocity) :
     /\ transaction_velocity[i].vendor_address = Lower(vendor_address)
     /\ transaction_velocity[i].window_start >= now - VELOCITY_WINDOW_HOURS}

\* update_velocity_tracker, lines 151-160: look for an active window; data is
\* response.data[0], any of the selected rows (the select states no order)
UpdateVelocitySelect(p, vendor_address, amount, ok) ==
  /\ pc[p] = "idle"
  /\ started[p].velocity < MaxVelocityCalls
  /\ started' = Count(p, "velocity")
  /\ IF ok
     THEN /\ \E data \in IF ActiveWindows(vendor_address) = {}
                         THEN {<< >>}
                         ELSE {<<transaction_velocity[i]>> :
                                 i \in ActiveWindows(vendor_address)} :
               call' = [call EXCEPT ![p] =
                          [op |-> "update_velocity_tracker",
                           vendor_address |-> vendor_address,
                           amount |-> amount, data |-> data]]
          /\ pc' = [pc EXCEPT ![p] = "update_velocity"]
          /\ ret' = [ret EXCEPT ![p] = NoReturn]
     ELSE /\ ret' = [ret EXCEPT ![p] = Return("update_velocity_tracker", "raised")]
          /\ UNCHANGED <<pc, call>>
  /\ UNCHANGED <<budgets, transaction_velocity, audit_logs, now, audit_result,
                 spent_expected, velocity_expected,
                 audit_input,
                 agent, available>>

\* the write with the window restarted at every recorded transaction
VelocityWrite_RestartsWindow(table, c, clock) ==
  IF c.data # << >>
  THEN [table EXCEPT
          ![c.data[1].id].transaction_count = c.data[1].transaction_count + 1,
          ![c.data[1].id].total_amount = c.data[1].total_amount + c.amount,
          ![c.data[1].id].window_start = clock]
  ELSE Append(table, VelocityRow(Len(table) + 1, Lower(c.vendor_address),
                                 1, c.amount, clock))

\* the table after the write of update_velocity_tracker, lines 160-176: the
\* row read is updated from the values read, or a new window is inserted
VelocityWrite(table, c, clock) ==
  IF c.data # << >>
  THEN [table EXCEPT
          ![c.data[1].id].transaction_count = c.data[1].transaction_count + 1,
          ![c.data[1].id].total_amount = c.data[1].total_amount + c.amount]
  ELSE Append(table, VelocityRow(Len(table) + 1, Lower(c.vendor_address),
                                 1, c.amount, clock))

UpdateVelocityWrite(p, ok) ==
  /\ pc[p] = "update_velocity"
  /\ pc' = [pc EXCEPT ![p] = "idle"]
  /\ call' = [call EXCEPT ![p] = NoCall]
  /\ IF ok
     THEN /\ transaction_velocity' = VelocityWrite(transaction_velocity, call[p], now)
          /\ velocity_expected' =
               [velocity_expected EXCEPT
                  ![Lower(call[p].vendor_address)] =
                     [transaction_count |-> @.transaction_count + 1,
                      total_amount |-> @.total_amount + call[p].amount]]
          /\ ret' = [ret EXCEPT ![p] = Return("update_velocity_tracker", "done")]
     ELSE /\ ret' = [ret EXCEPT ![p] = Return("update_velocity_tracker", "raised")]
          /\ UNCHANGED <<transaction_velocity, velocity_expected>>
  /\ UNCHANGED <<budgets, audit_logs, now, audit_result, spent_expected, started,
                 audit_input,
                 agent, available>>

\* the verdict with the limit itself still allowed
VelocityVerdict_AboveLimit(data) ==
  IF data # << >> /\ data[1].transaction_count > MAX_TRANSACTIONS_PER_VENDOR_PER_DAY
  THEN [is_safe |-> FALSE, reason |-> "Exceeded max transactions"]
  ELSE [is_safe |-> TRUE, reason |-> "Velocity check passed"]

\* what check_transaction_velocity returns when its query returned row data
\* (<< >>: no row): (is_safe, reason)
VelocityVerdict(data) ==
  IF data # << >> /\ data[1].transaction_count >= MAX_TRANSACTIONS_PER_VENDOR_PER_DAY
  THEN [is_safe |-> FALSE, reason |-> "Exceeded max transactions"]
  ELSE [is_safe |-> TRUE, reason |-> "Velocity check passed"]

\* what the except clause of check_transaction_velocity returns
VelocityUnavailable ==
  [is_safe |-> TRUE, reason |-> "Velocity check unavailable"]

\* p's last operation was an answered check_transaction_velocity for this
\* vendor at this clock instant
FollowsAnsweredCheck(p, vendor_address) ==
  /\ ret[p].op = "check_transaction_velocity"
  /\ ret[p].vendor_address = vendor_address
  /\ ret[p].at = now
  /\ ~ret[p].raised

\* what a call of check_transaction_velocity leaves in ret: the value
\* returned, with the address asked about, the clock instant, whether the
\* query raised and whether the call repeats an answered one
CheckReturn(p, vendor_address, value, raised) ==
  [op |-> "check_transaction_velocity", vendor_address |-> vendor_address,
   at |-> now, value |-> value, raised |-> raised,
   repeats |-> FollowsAnsweredCheck(p, vendor_address)]

\* the check counting itself as a transaction of the window it reads
CheckTransactionVelocity_CountsItself(p, vendor_address, ok) ==
  /\ pc[p] = "idle"
  /\ IF ok
     THEN \E data \in IF ActiveWindows(vendor_address) = {}
                      THEN {<< >>}
                      ELSE {<<transaction_velocity[i]>> :
                              i \in ActiveWindows(vendor_address)} :
            /\ ret' = [ret EXCEPT ![p] =
                         CheckReturn(p, vendor_address, VelocityVerdict(data), FALSE)]
            /\ transaction_velocity' =
                 IF data = << >> THEN transaction_velocity
                 ELSE [transaction_velocity EXCEPT
                         ![data[1].id].transaction_count = @ + 1]
     ELSE /\ ret' = [ret EXCEPT ![p] =
                       CheckReturn(p, vendor_address, VelocityUnavailable, TRUE)]
          /\ UNCHANGED transaction_velocity
  /\ UNCHANGED <<budgets, audit_logs, now, pc, call,
                 audit_result, spent_expected, velocity_expected, started,
                 audit_input,
                 agent, available>>

\* GovernanceDB.check_transaction_velocity
CheckTransactionVelocity(p, vendor_address, ok) ==
  /\ pc[p] = "idle"
  /\ IF ok
     THEN \E data \in IF ActiveWindows(vendor_address) = {}
                      THEN {<< >>}
                      ELSE {<<transaction_velocity[i]>> :
                              i \in ActiveWindows(vendor_address)} :
            ret' = [ret EXCEPT ![p] =
                      CheckReturn(p, vendor_address, VelocityVerdict(data), FALSE)]
     ELSE ret' = [ret EXCEPT ![p] =
                    CheckReturn(p, vendor_address, VelocityUnavailable, TRUE)]
  /\ UNCHANGED <<budgets, transaction_velocity, audit_logs, now, pc, call,
                 audit_result, spent_expected, velocity_expected, started,
                 audit_input,
                 agent, available>>

\* the row log_audit_decision inserts
AuditLogEntry(parsed, decision, reasoning, ai_confidence, transaction_hash) ==
  [vendor_name |-> parsed.vendor_name,
   vendor_address |-> Lower(parsed.vendor_address),
   amount |-> parsed.amount, category |-> parsed.category,
   decision |-> decision, reasoning |-> reasoning,
   ai_confidence |-> ai_confidence, transaction_hash |-> transaction_hash]

\* the clock advances
\* the rows get_recent_audits selects: the newest first, at most limit
RECURSIVE RecentAudits(_, _)
RecentAudits(logs, limit) ==
  IF logs = << >> \/ limit = 0 THEN << >>
  ELSE <<logs[Len(logs)]>> \o RecentAudits(SubSeq(logs, 1, Len(logs) - 1), limit - 1)

\* the read keeping in the table only the rows it returns
GetRecentAudits_KeepsWhatItShows(p, limit, ok) ==
  /\ pc[p] \in {"idle", "approved"}
  /\ ret' = [ret EXCEPT ![p] =
               Return("get_recent_audits",
                      IF ok THEN RecentAudits(audit_logs, limit) ELSE << >>)]
  /\ audit_logs' = IF ok /\ Len(audit_logs) > limit
                   THEN SubSeq(audit_logs, Len(audit_logs) - limit + 1, Len(audit_logs))
                   ELSE audit_logs
  /\ UNCHANGED <<budgets, transaction_velocity, now, pc, call,
                 audit_result, spent_expected, velocity_expected, started,
                 audit_input,
                 agent, available>>

\* GovernanceDB.get_recent_audits: a select ordered by created_at descending;
\* the except clause returns the empty list
GetRecentAudits(p, limit, ok) ==
  /\ pc[p] \in {"idle", "approved"}
  /\ ret' = [ret EXCEPT ![p] =
               Return("get_recent_audits",
                      IF ok THEN RecentAudits(audit_logs, limit) ELSE << >>)]
  /\ UNCHANGED <<budgets, transaction_velocity, audit_logs, now, pc, call,
                 audit_result, spent_expected, velocity_expected, started,
                 audit_input,
                 agent, available>>

Tick ==
  /\ now + TickHours <= MaxClock
  /\ now' = now + TickHours
  /\ UNCHANGED <<budgets, transaction_velocity, audit_logs, pc, call, audit_result,
                 ret, spent_expected, velocity_expected, started,
                 audit_input,
                 agent, available>>

(***************************************************************************)
(* The dashboard's handlers (app.py).                                      *)
(***************************************************************************)
\* the handler with an evaluation that reserves the amount in the budget of
\* the category when it approves
SubmitForAudit_ReservesBudget(p, text, store, ai, log_ok) ==
  /\ pc[p] = "idle"
  /\ audit_result[p] = NoResult
  /\ ai.llm = (agent.llm # NoModel)
  /\ \E pick \in IF store \in {"absent", "vendors_raise"}
                 THEN {0}
                 ELSE VendorPicks(parse_proposal_text(text)) :
       LET result == audit_proposal(text, budgets, pick, store, ai)
       IN /\ audit_result' = [audit_result EXCEPT ![p] = result]
          /\ audit_input' = [audit_input EXCEPT ![p] =
                               AuditInput(text, store, ai, log_ok)
                                 @@ [provider |-> agent.provider,
                                     model |-> agent.llm]]
          /\ IF result.decision = "APPROVED"
             THEN /\ pc' = [pc EXCEPT ![p] = "approved"]
                  /\ budgets' =
                       [budgets EXCEPT ![result.parsed_data.category].current_spent =
                                         @ + result.parsed_data.amount]
                  /\ UNCHANGED audit_logs
             ELSE /\ pc' = [pc EXCEPT ![p] = "idle"]
                  /\ UNCHANGED budgets
                  /\ audit_logs' =
                       IF log_ok
                       THEN Append(audit_logs,
                                   AuditLogEntry(result.parsed_data, "REJECTED",
                                                 result.reasoning, result.confidence,
                                                 "None"))
                       ELSE audit_logs
  /\ ret' = [ret EXCEPT ![p] = NoReturn]
  /\ UNCHANGED <<transaction_velocity, now, call, spent_expected,
                 velocity_expected, started,
                 agent, available>>

\* "Submit for AI Audit": audit_proposal, and for a rejection the insert
\* into audit_logs (log_ok: the insert succeeds; log_audit_decision returns
\* False otherwise, which the handler ignores).  A session submits one
\* proposal
SubmitForAudit(p, text, store, ai, log_ok) ==
  /\ pc[p] = "idle"
  /\ audit_result[p] = NoResult
  /\ ai.llm = (agent.llm # NoModel)
  /\ \E pick \in IF store \in {"absent", "vendors_raise"}
                 THEN {0}
                 ELSE VendorPicks(parse_proposal_text(text)) :
       LET result == audit_proposal(text, budgets, pick, store, ai)
       IN /\ audit_result' = [audit_result EXCEPT ![p] = result]
          /\ audit_input' = [audit_input EXCEPT ![p] =
                               AuditInput(text, store, ai, log_ok)
                                 @@ [provider |-> agent.provider,
                                     model |-> agent.llm]]
          /\ IF result.decision = "APPROVED"
             THEN /\ pc' = [pc EXCEPT ![p] = "approved"]
                  /\ UNCHANGED audit_logs
             ELSE /\ pc' = [pc EXCEPT ![p] = "idle"]
                  /\ audit_logs' =
                       IF log_ok
                       THEN Append(audit_logs,
                                   AuditLogEntry(result.parsed_data, "REJECTED",
                                                 result.reasoning, result.confidence,
                                                 "None"))
                       ELSE audit_logs
  /\ ret' = [ret EXCEPT ![p] = NoReturn]
  /\ UNCHANGED <<budgets, transaction_velocity, now, call, spent_expected,
                 velocity_expected, started,
                 agent, available>>

\* a caller runs token_manager.execute_transfer(to_address, amount)
ExecuteTransfer(p, simulation_mode, to_address, amount, env) ==
  /\ pc[p] = "idle"
  /\ ret' = [ret EXCEPT ![p] =
               [op |-> "token_manager.execute_transfer",
                simulation_mode |-> simulation_mode,
                value |-> execute_transfer(simulation_mode, to_address, amount, env)]]
  /\ UNCHANGED <<budgets, transaction_velocity, audit_logs, now, pc, call,
                 audit_result, spent_expected, velocity_expected, started,
                 audit_input, agent, available>>

\* the hashes a caller can ask the status of: the one its transfer just
\* returned, and hashes of transactions on the chain
KnownHashes(p) ==
  (IF ret[p].op = "token_manager.execute_transfer"
      /\ "tx_hash" \in DOMAIN ret[p].value
   THEN {ret[p].value.tx_hash} ELSE {})
  \cup ProductionHashes

\* a caller runs token_manager.get_transaction_status(tx_hash)
GetTransactionStatus(p, tx_hash, w3, receipt) ==
  /\ pc[p] = "idle"
  /\ tx_hash \in KnownHashes(p)
  /\ ret' = [ret EXCEPT ![p] =
               [op |-> "get_transaction_status", tx_hash |-> tx_hash,
                value |-> get_transaction_status(tx_hash, w3, receipt)]]
  /\ UNCHANGED <<budgets, transaction_velocity, audit_logs, now, pc, call,
                 audit_result, spent_expected, velocity_expected, started,
                 audit_input, agent, available>>

\* AuditorAgent.switch_provider(new_provider): set self.provider, then
\* _initialize_llm()
SwitchProvider(new_provider) ==
  /\ agent' = initialize_llm([agent EXCEPT !.provider = new_provider], available)
  /\ UNCHANGED <<budgets, transaction_velocity, audit_logs, now, pc, call,
                 audit_result, ret, spent_expected, velocity_expected, started,
                 audit_input, available>>

\* how a click on "Execute Payment" ends.  The button is created inside the
\* block of the submit button, so the run the click starts skips that block
\* ("skipped"); in a run where both buttons hold, the handler calls
\* execute_transfer(address, amount, simulate_only=True), which does not bind
\* and raises TypeError.  Either way lines 448-473 (the audit log insert,
\* update_budget_spent, update_velocity_tracker) are not reached
ExecuteOutcomes == {"skipped", "TypeError"}

\* the handler with the budget counted although the execution failed
ExecutePayment_CountsFailure(p) ==
  /\ pc[p] = "approved"
  /\ pc' = [pc EXCEPT ![p] = "idle"]
  /\ \E outcome \in ExecuteOutcomes :
       /\ outcome = "TypeError" =>
            ~CallBinds(HandlerCallKeywords, ExecuteTransferParameters)
       /\ ret' = [ret EXCEPT ![p] = Return("execute_transfer", outcome)]
  /\ budgets' =
       IF audit_result[p].parsed_data.category \in DOMAIN budgets
       THEN [budgets EXCEPT ![audit_result[p].parsed_data.category].current_spent =
                              @ + audit_result[p].parsed_data.amount]
       ELSE budgets
  /\ UNCHANGED <<transaction_velocity, audit_logs, now, call,
                 audit_result, spent_expected, velocity_expected, started,
                 audit_input,
                 agent, available>>

\* "Execute Payment" on an approved result
ExecutePayment(p) ==
  /\ pc[p] = "approved"
  /\ pc' = [pc EXCEPT ![p] = "idle"]
  /\ \E outcome \in ExecuteOutcomes :
       /\ outcome = "TypeError" =>
            ~CallBinds(HandlerCallKeywords, ExecuteTransferParameters)
       /\ ret' = [ret EXCEPT ![p] = Return("execute_transfer", outcome)]
  /\ UNCHANGED <<budgets, transaction_velocity, audit_logs, now, call,
                 audit_result, spent_expected, velocity_expected, started,
                 audit_input,
                 agent, available>>

(***************************************************************************)
(* Inputs.                                                                 *)
(***************************************************************************)
Text(vendor_match, address_token, amount_match, keywords) ==
  [vendor_match |-> vendor_match, address_token |-> address_token,
   amount_match |-> amount_match, keywords |-> keywords]

\* what the vendor pattern captures: nothing; "acme " (the active vendor, in
\* lower case); "Co" (part of both vendors' names); a run of blanks
VendorCaptures ==
  { << >>,
    << <<"a", "c", "m", "e", " ">> >>,
    << <<"C", "o">> >>,
    << <<" ">> >> }

\* the text from its first "0x" on: none; the active vendor's address in
\* mixed case; an address of no vendor
AddressTokens == { << >>, AddrOf("A", "a"), ADDR_OTHER }

\* the number before MNEE: none, or an amount
AmountCaptures == { << >>, <<10>>, <<30>> }

\* the category keywords the lower-cased text contains
KeywordSets == { {}, {"software"}, {"hedging", "software"} }

Texts ==
  {Text(v, a, m, w) : v \in VendorCaptures, a \in AddressTokens,
                      m \in AmountCaptures, w \in KeywordSets}

\* "Pay acme 10 MNEE, software, <the active vendor's address>"
TEXT_ACME_10 ==
  Text(<< <<"a", "c", "m", "e", " ">> >>, AddrOf("A", "a"), <<10>>, {"software"})

\* "Pay Co: software": no address, no amount
TEXT_CO_BARE == Text(<< <<"C", "o">> >>, << >>, << >>, {"software"})

\* a text whose address token has 39 hex digits only
TEXT_SHORT_ADDRESS ==
  Text(<< <<"a", "c", "m", "e", " ">> >>,
       <<"0", "x">> \o Rep("a", ADDRESS_HEX_DIGITS - 1), <<10>>, {"software"})

Stores == {"ok", "absent", "vendors_raise", "budgets_raise"}

NO_PROVIDER == AIOutcome(FALSE, FALSE, << >>)

\* no provider; the provider raises; responses without a DECISION line, with
\* one, with a CONFIDENCE line given as a percentage, and with two DECISION
\* lines
AIOutcomes ==
  { NO_PROVIDER,
    AIOutcome(TRUE, TRUE, << >>),
    AIOutcome(TRUE, FALSE, << Line("REASONING:", FALSE, FALSE, 0) >>),
    AIOutcome(TRUE, FALSE, << Line("DECISION:", FALSE, FALSE, 0) >>),
    AIOutcome(TRUE, FALSE, << Line("DECISION:", TRUE, FALSE, 0),
                              Line("CONFIDENCE:", FALSE, TRUE, 9000) >>),
    AIOutcome(TRUE, FALSE, << Line("DECISION:", TRUE, FALSE, 0),
                              Line("DECISION:", FALSE, FALSE, 0) >>) }

\* the submissions of a session: every text against a working store without a
\* provider, and three texts against every store and provider outcome, with
\* the audit log insert succeeding or not
AuditInputs ==
       {AuditInput(t, "ok", NO_PROVIDER, TRUE) : t \in Texts}
  \cup {AuditInput(t, s, ai, l) :
          t \in {TEXT_ACME_10, TEXT_CO_BARE, TEXT_SHORT_ADDRESS},
          s \in Stores, ai \in AIOutcomes, l \in BOOLEAN}

\* the submissions of two sessions that run side by side
ConcurrentAuditInputs == {AuditInput(TEXT_ACME_10, "ok", NO_PROVIDER, TRUE)}

(***************************************************************************)
(* Spec: one dashboard session, which also calls the store's update        *)
(* operations for the active vendor and its category.                      *)
(***************************************************************************)
Next ==
  \E p \in {"s1"} :
    \/ \E i \in AuditInputs : SubmitForAudit(p, i.text, i.store, i.ai, i.log_ok)
    \/ ExecutePayment(p)
    \/ \E ok \in BOOLEAN : UpdateBudgetSelect(p, "Software", 10, ok)
    \/ \E ok \in BOOLEAN : UpdateBudgetWrite(p, ok)
    \/ \E ok \in BOOLEAN : UpdateVelocitySelect(p, AddrOf("A", "a"), 10, ok)
    \/ \E ok \in BOOLEAN : UpdateVelocityWrite(p, ok)

Spec == Init /\ [][Next]_vars

(***************************************************************************)
(* SpecConcurrent: two sessions side by side.                              *)
(***************************************************************************)
ConcurrentCategories == {"Software"}
ConcurrentAmounts == {5, 10}

NextConcurrent ==
  \E p \in Sessions :
    \/ \E i \in ConcurrentAuditInputs :
         SubmitForAudit(p, i.text, i.store, i.ai, i.log_ok)
    \/ ExecutePayment(p)
    \/ \E c \in ConcurrentCategories, a \in ConcurrentAmounts, ok \in BOOLEAN :
         UpdateBudgetSelect(p, c, a, ok)
    \/ \E ok \in BOOLEAN : UpdateBudgetWrite(p, ok)
    \/ \E a \in ConcurrentAmounts, ok \in BOOLEAN :
         UpdateVelocitySelect(p, AddrOf("A", "a"), a, ok)
    \/ \E ok \in BOOLEAN : UpdateVelocityWrite(p, ok)

SpecConcurrent == Init /\ [][NextConcurrent]_vars

(***************************************************************************)
(* SpecVelocity: the velocity tracker under an advancing clock.            *)
(***************************************************************************)
VelocityCallAddresses == {AddrOf("A", "a"), ADDR_BETA}

NextVelocity ==
  \E p \in {"s1"} :
    \/ \E v \in VelocityCallAddresses, a \in ConcurrentAmounts, ok \in BOOLEAN :
         UpdateVelocitySelect(p, v, a, ok)
    \/ \E ok \in BOOLEAN : UpdateVelocityWrite(p, ok)
    \/ \E v \in VelocityCallAddresses, ok \in BOOLEAN :
         CheckTransactionVelocity(p, v, ok)
    \/ Tick

SpecVelocity == Init /\ [][NextVelocity]_vars

(***************************************************************************)
(* SpecDashboard: two sessions of the dashboard as it is deployed; the     *)
(* store is reached through the handlers only.                             *)
(***************************************************************************)
\* one text against a working store, with every provider outcome
DashboardAuditInputs ==
  {AuditInput(TEXT_ACME_10, "ok", ai, l) : ai \in AIOutcomes, l \in BOOLEAN}

\* the limits the dashboard passes to get_recent_audits (one row, and the
\* ten of the activity list)
RecentLimits == {1, 10}

NextDashboard ==
  \E p \in Sessions :
    \/ \E i \in DashboardAuditInputs :
         SubmitForAudit(p, i.text, i.store, i.ai, i.log_ok)
    \/ ExecutePayment(p)
    \/ \E limit \in RecentLimits, ok \in BOOLEAN : GetRecentAudits(p, limit, ok)

SpecDashboard == Init /\ [][NextDashboard]_vars

\* the dashboard with its provider selection: submissions of two sessions
\* and changes of the selected provider
NextProvider ==
  \/ \E p \in Sessions, i \in DashboardAuditInputs :
       SubmitForAudit(p, i.text, i.store, i.ai, i.log_ok)
  \/ \E new_provider \in Providers : SwitchProvider(new_provider)

SpecProvider == Init /\ [][NextProvider]_vars

\* the payment rail on its own: transfers and status lookups of one caller
\* while the clock advances
ChainReactions == {"confirmed", "reverted", "raises"}
AddressHashes == {0, 999999}
Receipts == {"confirmed", "failed", "raises"}

RailEnvironments ==
  {RailEnvironment(c, h, now, a) :
     c \in ChainReactions, h \in ProductionHashes, a \in AddressHashes}

NextRail ==
  \/ \E p \in {"s1"} :
       \/ \E m \in BOOLEAN, to \in {ADDR_ACME, << >>}, a \in ConcurrentAmounts,
             env \in RailEnvironments :
            ExecuteTransfer(p, m, to, a, env)
       \/ \E h \in KnownHashes(p), w3 \in BOOLEAN, r \in Receipts :
            GetTransactionStatus(p, h, w3, r)
  \/ Tick

SpecRail == Init /\ [][NextRail]_vars

(***************************************************************************)
(* Properties.                                                             *)
(***************************************************************************)
\* the sessions that hold a result of audit_proposal
Audited == {p \in Sessions : audit_result[p] # NoResult}

\* session p receives the result of audit_proposal in this step
Audits(p) == audit_result[p] = NoResult /\ audit_result'[p] # NoResult

\* C1: audit_proposal returns APPROVED only if the ledger holds an active
\* whitelisted vendor whose wallet_address equals the proposal's
\* vendor_address, compared case-insensitively; a proposal whose address
\* matches no vendor, or only an inactive one, is not approved.
C1_ApprovedOnlyForActiveWhitelistedAddress ==
  \A p \in Audited :
     audit_result[p].decision = "APPROVED"
       => is_vendor_whitelisted(audit_result[p].parsed_data.vendor_address)

\* the vendor has an active velocity window that holds the daily maximum of
\* transactions already
VelocityExhausted(vendor_address) ==
  \E i \in ActiveWindows(vendor_address) :
     transaction_velocity[i].transaction_count >= MAX_TRANSACTIONS_PER_VENDOR_PER_DAY

\* the result records every check other than velocity as passed
PassesOtherChecks(result) ==
  /\ result.details.valid_address
  /\ result.details.vendor_whitelisted
  /\ result.details.within_tx_limit
  /\ result.details.within_budget

\* C2: once a vendor's window inside the last 24 hours holds ten executed
\* transactions, a further proposal for that vendor that passes every other
\* check is REJECTED by the audit (the velocity check); a window older than
\* 24 hours rejects nothing.
C2_EleventhProposalRejected ==
  [][\A p \in Sessions :
       ( /\ Audits(p)
         /\ PassesOtherChecks(audit_result'[p])
         /\ VelocityExhausted(audit_result'[p].parsed_data.vendor_address) )
       => audit_result'[p].decision = "REJECTED"]_vars

\* C3: every proposal whose parse confidence is below the confidence
\* threshold (0.70) is REJECTED; no proposal with a confidence below 0.70 is
\* APPROVED.
C3_LowConfidenceRejected ==
  \A p \in Audited :
     audit_result[p].parsed_data.confidence < CONFIDENCE_THRESHOLD
       => audit_result[p].decision = "REJECTED"

\* the amount of the result exceeds both the bound vendor's
\* max_transaction_limit and the remaining budget of the category
ExceedsLimitAndBudget(result) ==
  /\ result.details.details.vendor # << >>
  /\ result.details.details.budget # << >>
  /\ result.parsed_data.amount > result.details.details.vendor[1].max_transaction_limit
  /\ result.parsed_data.amount > result.details.details.budget[1].remaining

C6_ApprovedPassesEveryCheck ==
  \A p \in Audited :
     audit_result[p].decision = "APPROVED"
       => /\ audit_result[p].details.valid_address
          /\ audit_result[p].parsed_data.vendor_address # << >>
          /\ AddressMatch(audit_result[p].parsed_data.vendor_address)
               = audit_result[p].parsed_data.vendor_address
          /\ audit_result[p].details.vendor_whitelisted
          /\ audit_result[p].details.within_tx_limit
          /\ audit_result[p].details.within_budget
          /\ audit_result[p].details.velocity_ok

\* C7: a proposal whose amount is not strictly positive (0 when no amount is
\* extracted) is REJECTED, never APPROVED.
C7_NonPositiveAmountRejected ==
  \A p \in Audited :
     audit_result[p].parsed_data.amount <= 0
       => audit_result[p].decision = "REJECTED"

\* C8: once every update_budget_spent call has completed, under every
\* interleaving, current_spent of a category is its initial value plus the
\* sum of the amounts of the calls that returned True (no lost update).
C8_NoLostBudgetUpdate ==
  (\A p \in Sessions : pc[p] # "update_budget")
    => \A c \in BudgetCategories : budgets[c].current_spent = spent_expected[c]

\* both sessions ran a submit-then-execute flow to its end, for 10 MNEE in
\* category Software each, audited against the initial budget (15 remaining),
\* and nothing else called update_budget_spent
TwoFlowsDone ==
  /\ \A p \in Sessions :
       /\ p \in Audited
       /\ pc[p] = "idle"
       /\ started[p].budget = 0
       /\ audit_result[p].parsed_data.amount = 10
       /\ audit_result[p].parsed_data.category = "Software"
  /\ InitialBudgets["Software"].monthly_limit_mnee
       - InitialBudgets["Software"].current_spent = 15

\* C9: when two audit-then-execute flows of 10 MNEE each run side by side
\* against a category with exactly 15 remaining, exactly one of them spends:
\* current_spent increases by 10 and stays within monthly_limit, and the
\* other flow is refused for insufficient budget.
C9_ExactlyOneFlowSpends ==
  TwoFlowsDone
    => /\ budgets["Software"].current_spent
            = InitialBudgets["Software"].current_spent + 10
       /\ budgets["Software"].current_spent
            <= budgets["Software"].monthly_limit_mnee
       /\ Cardinality({p \in Sessions :
                         /\ audit_result[p].decision = "REJECTED"
                         /\ audit_result[p].reasoning = "Insufficient budget"}) = 1

\* both sessions completed an update_velocity_tracker call
TwoVelocityCallsDone ==
  \A p \in Sessions :
     /\ pc[p] # "update_velocity"
     /\ ret[p].op = "update_velocity_tracker"
     /\ ret[p].value = "done"

\* C10: two concurrent update_velocity_tracker calls for one vendor address
\* leave, under every interleaving, exactly one active window of that vendor,
\* whose transaction_count and total_amount reflect both transactions.
C10_OneWindowCountsBothCalls ==
  TwoVelocityCallsDone
    => /\ Cardinality(ActiveWindows(ADDR_ACME)) = 1
       /\ \A i \in ActiveWindows(ADDR_ACME) :
            /\ transaction_velocity[i].transaction_count
                 = velocity_expected[ADDR_ACME].transaction_count
            /\ transaction_velocity[i].total_amount
                 = velocity_expected[ADDR_ACME].total_amount

\* session p clicks Execute Payment in this step, and how the click ends
Executes(p) == pc[p] = "approved" /\ pc'[p] = "idle"
ExecutionSucceeds(p) ==
  Executes(p) /\ ret'[p].op = "execute_transfer" /\ ret'[p].value = "SUCCESS"

\* C11: a category's current_spent and a vendor's velocity record change only
\* in a step that records an execution the payment rail reported as
\* successful; recording a rejection, approving without executing, and an
\* execution that failed leave budgets and velocity windows unchanged.
C11_SpendAndVelocityChangeOnlyOnSuccess ==
  [][ /\ (budgets' # budgets \/ transaction_velocity' # transaction_velocity)
           => \E p \in Sessions : ExecutionSucceeds(p)
      /\ \A p \in Sessions :
           (Audits(p) \/ (Executes(p) /\ ~ExecutionSucceeds(p)))
             => /\ budgets' = budgets
                /\ transaction_velocity' = transaction_velocity ]_vars

\* one session's rejection is logged, the other's approval was executed and
\* the execution failed
C11_Witness ==
  \E p, q \in Audited :
     /\ audit_result[p].decision = "REJECTED"
     /\ audit_logs # << >>
     /\ audit_result[q].decision = "APPROVED"
     /\ ret[q].op = "execute_transfer"
     /\ budgets = InitialBudgets

\* the row the handler inserts for a rejected result
RejectionEntry(result) ==
  AuditLogEntry(result.parsed_data, "REJECTED", result.reasoning,
                result.confidence, "None")

\* C12: evaluating a proposal only reads: in the step that returns the result,
\* budgets and velocity windows are unchanged whatever the outcome, and the
\* audit log is unchanged but for the row the handler inserts afterwards for
\* a rejection.
C12_EvaluationOnlyReads ==
  [][\A p \in Sessions :
       Audits(p)
         => /\ budgets' = budgets
            /\ transaction_velocity' = transaction_velocity
            /\ \/ audit_logs' = audit_logs
               \/ /\ audit_result'[p].decision = "REJECTED"
                  /\ audit_logs' = Append(audit_logs,
                                          RejectionEntry(audit_result'[p]))]_vars

\* an evaluation that approved has returned and every table is as it was
C12_Witness ==
  \E p \in Audited :
     /\ audit_result[p].decision = "APPROVED"
     /\ pc[p] = "approved"
     /\ started[p].budget = 0 /\ started[p].velocity = 0
     /\ budgets = InitialBudgets
     /\ audit_logs = << >>

\* C13: every decision produced for a submitted proposal results in exactly
\* one audit-log entry, whether it is REJECTED, APPROVED and not executed, or
\* APPROVED and executed.
C13_OneLogEntryPerDecision ==
  Len(audit_logs) = Cardinality(Audited)

\* session p clicked Execute Payment on its approved result
Executed(p) == p \in Audited /\ ret[p].op = "execute_transfer"

\* what the payment rail reports for the transfer of p's result (the rail
\* runs in simulation mode: no treasury key is configured)
RailReport(p) ==
  execute_transfer(TRUE, audit_result[p].parsed_data.vendor_address,
                   audit_result[p].parsed_data.amount,
                   RailEnvironment("confirmed", << >>, now, 0))

\* the audit log holds an APPROVED row for p's result with the rail's hash
ApprovalLogged(p) ==
  \E i \in 1..Len(audit_logs) :
     /\ audit_logs[i].decision = "APPROVED"
     /\ audit_logs[i].vendor_address
          = Lower(audit_result[p].parsed_data.vendor_address)
     /\ audit_logs[i].amount = audit_result[p].parsed_data.amount
     /\ audit_logs[i].transaction_hash = RailReport(p).tx_hash

\* the amount of p's result is counted in current_spent of its category
SpendCounted(p) ==
  LET c == audit_result[p].parsed_data.category
  IN /\ c \in DOMAIN budgets
     /\ budgets[c].current_spent
          >= InitialBudgets[c].current_spent + audit_result[p].parsed_data.amount

\* a velocity window of p's vendor counts one transaction more than before
VelocityCounted(p) ==
  LET a == audit_result[p].parsed_data.vendor_address
  IN \E i \in ActiveWindows(a) :
        transaction_velocity[i].transaction_count
          >= velocity_expected[Lower(a)].transaction_count + 1

\* C14: when an APPROVED proposal is executed and the payment rail reports
\* success, an APPROVED audit entry with the transaction hash is appended,
\* current_spent of the category grows by the amount and one velocity
\* transaction is recorded for the vendor.
C14_SuccessfulExecutionIsRecorded ==
  \A p \in Sessions :
     (Executed(p) /\ RailReport(p).status = "SUCCESS")
       => ApprovalLogged(p) /\ SpendCounted(p) /\ VelocityCounted(p)

\* C15: the audit-log write, the budget increment and the velocity update of
\* one executed approval take effect as one unit: either all three are
\* there, or the caller has seen a failure and none of them is.
C15_ExecutionRecordedAsOneUnit ==
  \A p \in Sessions :
     Executed(p)
       => \/ ApprovalLogged(p) /\ SpendCounted(p) /\ VelocityCounted(p)
          \/ /\ ret[p].value = "TypeError"
             /\ ~ApprovalLogged(p) /\ ~SpendCounted(p) /\ ~VelocityCounted(p)

\* the store conditions under which a lookup of the audit gets no answer
FailingStores == {"absent", "vendors_raise", "budgets_raise"}

\* C16: when the store cannot answer the whitelist lookup or the budget
\* lookup (no store configured, or the query raises), audit_proposal returns
\* REJECTED, never APPROVED.
C16_LookupFailureRejects ==
  \A p \in Audited :
     audit_input[p].store \in FailingStores
       => audit_result[p].decision = "REJECTED"

\* the vendor lookup bound a vendor, the budget lookup raised, and a proposal
\* within the vendor's limit was audited
C16_Witness ==
  \E p \in Audited :
     /\ audit_input[p].store = "budgets_raise"
     /\ audit_result[p].details.vendor_whitelisted
     /\ audit_result[p].details.within_tx_limit
     /\ audit_result[p].decision = "REJECTED"

\* C17: when the velocity-window lookup fails, check_transaction_velocity
\* reports the transaction as not safe.
C17_VelocityLookupFailureIsUnsafe ==
  \A p \in Sessions :
     (ret[p].op = "check_transaction_velocity" /\ ret[p].raised)
       => ~ret[p].value.is_safe

\* what is left of the budget of a category before the step
Remaining(category) ==
  budgets[category].monthly_limit_mnee - budgets[category].current_spent

\* C18: for a proposal bound to a whitelisted vendor, the budget check
\* passes exactly when the amount is at most the remaining budget of the
\* vendor's own category (vendor.category), whatever category the words of
\* the proposal text suggest.
C18_BudgetCheckUsesVendorCategory ==
  [][\A p \in Sessions :
       (/\ Audits(p)
        /\ audit_input'[p].store = "ok"
        /\ audit_result'[p].details.vendor_whitelisted)
         => LET vendor == audit_result'[p].details.details.vendor[1]
                amount == audit_result'[p].parsed_data.amount
            IN audit_result'[p].details.within_budget
                 <=> (/\ vendor.category \in DOMAIN budgets
                      /\ amount <= Remaining(vendor.category))]_vars

\* C19: the confidence carried by every decision, in particular by every
\* rejection, is the confidence of the parsed proposal.
C19_DecisionCarriesParseConfidence ==
  \A p \in Audited :
     audit_result[p].confidence = audit_result[p].parsed_data.confidence

\* C20: two evaluations of the same proposal text with the same provider
\* configuration that read the same vendor row and the same budget row
\* return the same decision.
C20_SameInputsSameDecision ==
  \A p, q \in Audited :
     (/\ audit_input[p].text = audit_input[q].text
      /\ audit_input[p].store = audit_input[q].store
      /\ audit_input[p].ai.llm = audit_input[q].ai.llm
      /\ audit_result[p].details = audit_result[q].details)
       => audit_result[p].decision = audit_result[q].decision

\* a call of check_transaction_velocity by p returns in this step and its
\* window query was answered
VelocityCheckAnswers(p) ==
  /\ ret'[p] # ret[p]
  /\ ret'[p].op = "check_transaction_velocity"
  /\ ~ret'[p].raised

\* the windows of a vendor that hold the daily maximum or more
FullWindows(vendor_address) ==
  {i \in 1..Len(transaction_velocity) :
     /\ transaction_velocity[i].vendor_address = Lower(vendor_address)
     /\ transaction_velocity[i].transaction_count
          >= MAX_TRANSACTIONS_PER_VENDOR_PER_DAY}

\* C21: an answered check_transaction_velocity reports unsafe exactly when
\* the vendor has a window that started within the last 24 hours and holds
\* 10 transactions or more; a count of exactly 10 blocks, and a window whose
\* start is more than 24 hours back blocks no longer.
C21_UnsafeExactlyInsideFullWindow ==
  [][\A p \in Sessions :
       VelocityCheckAnswers(p)
         => (~ret'[p].value.is_safe
               <=> \E i \in FullWindows(ret'[p].vendor_address) :
                      now - transaction_velocity[i].window_start
                        <= VELOCITY_WINDOW_HOURS)]_vars

\* the check answered safe for a vendor whose window holds exactly 10
\* transactions and started more than 24 hours ago
C21_Witness ==
  \E p \in Sessions :
     /\ ret[p].op = "check_transaction_velocity"
     /\ ~ret[p].raised
     /\ ret[p].value.is_safe
     /\ \E i \in FullWindows(ret[p].vendor_address) :
           /\ transaction_velocity[i].transaction_count
                = MAX_TRANSACTIONS_PER_VENDOR_PER_DAY
           /\ now - transaction_velocity[i].window_start > VELOCITY_WINDOW_HOURS

\* p's update_velocity_tracker makes its window query in this step
VelocityLookup(p) == pc[p] = "idle" /\ pc'[p] = "update_velocity"

\* p's update_velocity_tracker completes its write in this step
VelocityRecorded(p) ==
  /\ pc[p] = "update_velocity"
  /\ ret'[p] = Return("update_velocity_tracker", "done")

\* every row of the table before the step except row i is still the same
OtherRowsUnchanged(i) ==
  \A j \in 1..Len(transaction_velocity) :
     j # i => transaction_velocity'[j] = transaction_velocity[j]

\* C22: update_velocity_tracker(address, amount) finds a window exactly when
\* the vendor has one that started within the last 24 hours; that window's
\* transaction_count grows by exactly 1, its total_amount by exactly amount
\* and its window_start stays; with no such window a new one is opened with
\* window_start = now, transaction_count = 1 and total_amount = amount; all
\* other records stay as they are.
C22_VelocityUpdateCountsOneTransaction ==
  [][\A p \in Sessions :
       /\ VelocityLookup(p)
            => LET c == call'[p]
               IN IF ActiveWindows(c.vendor_address) = {}
                  THEN c.data = << >>
                  ELSE /\ c.data # << >>
                       /\ c.data[1].id \in ActiveWindows(c.vendor_address)
       /\ VelocityRecorded(p)
            => LET c == call[p]
               IN IF c.data # << >>
                  THEN LET i == c.data[1].id
                       IN /\ Len(transaction_velocity') = Len(transaction_velocity)
                          /\ transaction_velocity'[i].transaction_count
                               = transaction_velocity[i].transaction_count + 1
                          /\ transaction_velocity'[i].total_amount
                               = transaction_velocity[i].total_amount + c.amount
                          /\ transaction_velocity'[i].window_start
                               = transaction_velocity[i].window_start
                          /\ transaction_velocity'[i].vendor_address
                               = transaction_velocity[i].vendor_address
                          /\ OtherRowsUnchanged(i)
                  ELSE LET n == Len(transaction_velocity) + 1
                       IN /\ Len(transaction_velocity') = n
                          /\ transaction_velocity'[n].vendor_address
                               = Lower(c.vendor_address)
                          /\ transaction_velocity'[n].window_start = now
                          /\ transaction_velocity'[n].transaction_count = 1
                          /\ transaction_velocity'[n].total_amount = c.amount
                          /\ OtherRowsUnchanged(n)]_vars

\* an update found the window opened at hour 0 with nine transactions and
\* made it the tenth, hours after the window was opened
C22_Witness ==
  \E p \in Sessions :
     /\ ret[p] = Return("update_velocity_tracker", "done")
     /\ now > 0
     /\ \E i \in 1..Len(transaction_velocity) :
           /\ transaction_velocity[i].window_start = 0
           /\ transaction_velocity[i].transaction_count = 10
           /\ transaction_velocity[i].total_amount > 90

\* a call of check_transaction_velocity by p returns in this step
VelocityCheckReturns(p) ==
  ret'[p] # ret[p] /\ ret'[p].op = "check_transaction_velocity"

\* C23: check_transaction_velocity is read-only and repeatable: a call
\* changes no velocity record (nor any other table), and an answered call
\* that follows an answered call for the same vendor at the same clock
\* instant, with no update_velocity_tracker in between, returns the same
\* answer.
C23_VelocityCheckReadOnlyAndRepeatable ==
  [][\A p \in Sessions :
       VelocityCheckReturns(p)
         => /\ UNCHANGED <<transaction_velocity, budgets, audit_logs>>
            /\ (ret'[p].repeats /\ ~ret'[p].raised)
                 => ret'[p].value = ret[p].value]_vars

\* a second answered check for the vendor whose window is full, at the same
\* instant as the first
C23_Witness ==
  \E p \in Sessions :
     /\ ret[p].op = "check_transaction_velocity"
     /\ ret[p].repeats
     /\ ~ret[p].raised
     /\ ~ret[p].value.is_safe
     /\ ActiveWindows(ret[p].vendor_address) # {}

\* C24: current_spent of a category never decreases: every write stores a
\* value greater than or equal to the value it replaces, in any interleaving
\* of evaluations and recorded payments.
C24_CurrentSpentNeverDecreases ==
  [][\A c \in BudgetCategories :
       budgets'[c].current_spent >= budgets[c].current_spent]_vars

\* a call of get_recent_audits by p returns in this step
RecentAuditsRead(p) ==
  ret'[p] # ret[p] /\ ret'[p].op = "get_recent_audits"

\* C25: the audit log is append-only: every step leaves the sequence of
\* audit entries as it is or appends one entry to it, no entry is changed
\* or removed, and get_recent_audits leaves the log unchanged.
C25_AuditLogAppendOnly ==
  [][/\ \/ audit_logs' = audit_logs
        \/ /\ Len(audit_logs') = Len(audit_logs) + 1
           /\ SubSeq(audit_logs', 1, Len(audit_logs)) = audit_logs
     /\ \A p \in Sessions : RecentAuditsRead(p) => audit_logs' = audit_logs]_vars

\* two rejections are logged and a read with limit 1 returned the newer one,
\* both entries still in the log
C25_Witness ==
  /\ Len(audit_logs) = 2
  /\ \E p \in Sessions :
        /\ ret[p].op = "get_recent_audits"
        /\ ret[p].value = <<audit_logs[2]>>

\* C26: audit_proposal always ends with a decision object whose decision is
\* exactly APPROVED or REJECTED, whatever the proposal text, the store (absent
\* or raising) and the provider (absent, raising, or answering without a
\* usable DECISION: or CONFIDENCE: line) do.
C26_AlwaysADecision ==
  \A p \in Sessions :
     audit_input[p] # NoInput
       => /\ p \in Audited
          /\ audit_result[p].decision \in {"APPROVED", "REJECTED"}
          /\ audit_result[p].parsed_data = parse_proposal_text(audit_input[p].text)

\* the provider answered without any DECISION: line and the audit still
\* returned a decision
C26_Witness ==
  \E p \in Audited :
     /\ audit_input[p].ai.llm
     /\ ~audit_input[p].ai.raises
     /\ \A i \in 1..Len(audit_input[p].ai.response) :
           audit_input[p].ai.response[i].tag # "DECISION:"
     /\ audit_result[p].reasoning = "AI analysis"

\* the rule checks of a result passed: vendor found, within budget, within
\* the transaction limit, and no malformed address
RuleChecksPass(result) ==
  /\ result.details.vendor_whitelisted
  /\ result.details.within_budget
  /\ result.details.within_tx_limit
  /\ result.details.valid_address \/ result.parsed_data.vendor_address = << >>

\* C27: a rule-based rejection is final: when a rule check fails the decision
\* is REJECTED and is the same for every answer and failure of the provider,
\* so the provider cannot turn a rule failure into APPROVED.
C27_RuleRejectionIsFinal ==
  \A p \in Audited :
     ~RuleChecksPass(audit_result[p])
       => /\ audit_result[p].decision = "REJECTED"
          /\ \A ai \in AIOutcomes :
                DecisionRule(audit_result[p].parsed_data,
                             audit_result[p].details, ai).decision = "REJECTED"

\* a rule check failed for a proposal that the configured provider answered
\* with an approval
C27_Witness ==
  \E p \in Audited :
     /\ ~RuleChecksPass(audit_result[p])
     /\ audit_input[p].ai.llm
     /\ ~audit_input[p].ai.raises
     /\ parse_ai_response(audit_input[p].ai.response).decision = "APPROVED"
     /\ audit_result[p].decision = "REJECTED"

\* the last DECISION: line of a response holds REJECT
LastDecisionRejects(response) ==
  \E i \in 1..Len(response) :
     /\ response[i].tag = "DECISION:"
     /\ response[i].reject
     /\ \A j \in (i + 1)..Len(response) : response[j].tag # "DECISION:"

\* C28: when all rule checks pass, the decision is REJECTED exactly when a
\* provider is configured, its call succeeds and the last DECISION: line of
\* its response holds REJECT; in every other case it is APPROVED.
C28_ProviderRejectsByLastDecisionLine ==
  \A p \in Audited :
     RuleChecksPass(audit_result[p])
       => /\ audit_result[p].decision \in {"APPROVED", "REJECTED"}
          /\ audit_result[p].decision = "REJECTED"
               <=> /\ audit_input[p].ai.llm
                   /\ ~audit_input[p].ai.raises
                   /\ LastDecisionRejects(audit_input[p].ai.response)

\* the rule checks passed and the provider answered REJECT first and an
\* approval in a later DECISION: line
C28_Witness ==
  \E p \in Audited :
     /\ RuleChecksPass(audit_result[p])
     /\ audit_input[p].ai.llm
     /\ ~audit_input[p].ai.raises
     /\ Len(audit_input[p].ai.response) = 2
     /\ audit_input[p].ai.response[1].reject
     /\ audit_input[p].ai.response[2].tag = "DECISION:"
     /\ ~audit_input[p].ai.response[2].reject
     /\ audit_result[p].decision = "APPROVED"

\* C29: after any sequence of switch_provider calls the agent's model is a
\* model of the currently selected provider: get_provider_info().available
\* is true only if the library and the API key of the current provider are
\* there, and no audit uses the model of a provider selected before.
C29_ModelBelongsToSelectedProvider ==
  /\ get_provider_info(agent).available
       => agent.llm = agent.provider /\ agent.provider \in available
  /\ \A p \in Audited :
        audit_input[p].model \in {NoModel, audit_input[p].provider}

\* C30: execute_transfer always returns a result whose status is SUCCESS or
\* FAILED; in simulation mode the result is SUCCESS with a tx_hash that
\* begins with 0xsim, and get_transaction_status of a hash that begins with
\* 0xsim reports CONFIRMED in SIMULATION mode without asking the chain.
C30_TransferAlwaysReturnsAStatus ==
  \A p \in Sessions :
     /\ ret[p].op = "token_manager.execute_transfer"
          => /\ ret[p].value.status \in {"SUCCESS", "FAILED"}
             /\ ret[p].simulation_mode
                  => /\ ret[p].value.status = "SUCCESS"
                     /\ StartsWith(ret[p].value.tx_hash, SIM_PREFIX)
     /\ (/\ ret[p].op = "get_transaction_status"
         /\ StartsWith(ret[p].tx_hash, SIM_PREFIX))
          => /\ ret[p].value.status = "CONFIRMED"
             /\ ret[p].value.mode = "SIMULATION"
             /\ ~ret[p].value.contacted

\* the status of a simulated transfer's hash, made of the prefix, the clock
\* in hexadecimal and six digits of the address hash, was looked up
C30_Witness ==
  \E p \in Sessions :
     /\ ret[p].op = "get_transaction_status"
     /\ ret[p].tx_hash = SIM_PREFIX \o <<"1", "8">>
                           \o <<"0", "f", "4", "2", "3", "f">>
     /\ ret[p].value.status = "CONFIRMED"

=============================================================================
